---- MODULE Spec2Model ----
(***************************************************************************)
(* Model of src/src/index.ts: the two MCP tool handlers                    *)
(* (get_repository_structure, get_file_content), the recursive traversal   *)
(* getRepositoryStructure, the content fetcher getFileContent and the SSE  *)
(* broadcaster sendSSEMessage over the module-level registry sseClients.   *)
(*                                                                         *)
(* A handler runs synchronously up to its next `await` of a host call      *)
(* (octokit.repos.getContent); each action below is one such run.          *)
(* Timestamps (new Date().toISOString()) are payload fields no control     *)
(* flow depends on; they are left out of the event records.                *)
(***************************************************************************)
EXTENDS Integers, Sequences, FiniteSets, TLC

VARIABLES host, sseClients, nextId, lastSend,
          pc, args, stack, structure, walk, files, resp, events, calls

vars == <<host, sseClients, nextId, lastSend,
          pc, args, stack, structure, walk, files, resp, events, calls>>

(***************************************************************************)
(* Bounds                                                                  *)
(***************************************************************************)
\* number of subscriptions ever made (fresh observer ids 1..MaxSubs)
MaxSubs == 2

\* tool invocations in flight (each runs one handler to completion)
Reqs == {1, 2}

(***************************************************************************)
(* Strings.  Program strings are TLA+ strings; Chars gives the characters  *)
(* of the strings whose characters the program inspects.                   *)
(***************************************************************************)
Chars(s) ==
  CASE s = ""          -> <<>>
    [] s = " "         -> <<" ">>
    [] s = "ghp"       -> <<"g", "h", "p">>
    [] s = "a.txt"     -> <<"a", ".", "t", "x", "t">>
    [] s = "sub"       -> <<"s", "u", "b">>
    [] s = "b.md"      -> <<"b", ".", "m", "d">>
    [] s = "README.MD" -> <<"R", "E", "A", "D", "M", "E", ".", "M", "D">>
    [] s = "Makefile"  -> <<"M", "a", "k", "e", "f", "i", "l", "e">>
    [] s = "docs"      -> <<"d", "o", "c", "s">>
    [] s = "c.tar.md"  -> <<"c", ".", "t", "a", "r", ".", "m", "d">>
    [] s = "vendor"    -> <<"v", "e", "n", "d", "o", "r">>
    [] s = "md"        -> <<"m", "d">>
    [] s = "MD"        -> <<"M", "D">>
    [] s = "txt"       -> <<"t", "x", "t">>
    [] s = "makefile"  -> <<"m", "a", "k", "e", "f", "i", "l", "e">>
    [] s = "*"         -> <<"*">>

UpperCase == <<"A", "B", "C", "D", "E", "F", "G", "H", "I", "J", "K", "L", "M",
               "N", "O", "P", "Q", "R", "S", "T", "U", "V", "W", "X", "Y", "Z">>

LowerCase == <<"a", "b", "c", "d", "e", "f", "g", "h", "i", "j", "k", "l", "m",
               "n", "o", "p", "q", "r", "s", "t", "u", "v", "w", "x", "y", "z">>

\* String.prototype.toLowerCase on one character
LowerChar(c) ==
  IF \E i \in 1..Len(UpperCase) : UpperCase[i] = c
  THEN LowerCase[CHOOSE i \in 1..Len(UpperCase) : UpperCase[i] = c]
  ELSE c

toLowerCase(cs) == [i \in 1..Len(cs) |-> LowerChar(cs[i])]

\* String.prototype.trim: strips leading and trailing whitespace
RECURSIVE TrimLeft(_)
TrimLeft(cs) ==
  IF cs # <<>> /\ Head(cs) = " " THEN TrimLeft(Tail(cs)) ELSE cs

RECURSIVE TrimRight(_)
TrimRight(cs) ==
  IF cs # <<>> /\ cs[Len(cs)] = " " THEN TrimRight(SubSeq(cs, 1, Len(cs) - 1)) ELSE cs

trim(cs) == TrimRight(TrimLeft(cs))

\* String.prototype.split('.'): the segments between the dots, at least one
RECURSIVE SplitFrom(_, _, _)
SplitFrom(cs, cur, acc) ==
  IF cs = <<>> THEN Append(acc, cur)
  ELSE IF Head(cs) = "." THEN SplitFrom(Tail(cs), <<>>, Append(acc, cur))
  ELSE SplitFrom(Tail(cs), Append(cur, Head(cs)), acc)

split(cs) == SplitFrom(cs, <<>>, <<>>)

\* Array.prototype.pop: the last element
pop(parts) == parts[Len(parts)]

\* Array.prototype.includes on a list of strings, compared by characters
includes(list, cs) == \E i \in 1..Len(list) : Chars(list[i]) = cs

(***************************************************************************)
(* The repository host (octokit.repos.getContent).  A repository is a      *)
(* fixed tree; a call answers from the tree or fails.                      *)
(***************************************************************************)
Repos == {"scenario", "mixed"}

NoNode == [type |-> "missing"]

FileN(name, path, size, content) ==
  [type |-> "file", name |-> name, path |-> path, size |-> size, content |-> content]

DirN(name, path, entries) ==
  [type |-> "dir", name |-> name, path |-> path, entries |-> entries]

SubmoduleN(name, path) ==
  [type |-> "submodule", name |-> name, path |-> path]

\* what the repository h holds at a path
Node(h, path) ==
  IF h = "scenario" THEN
    CASE path = ""         -> DirN("", "", <<"a.txt", "sub">>)
      [] path = "a.txt"    -> FileN("a.txt", "a.txt", 2, "aGk=")
      [] path = "sub"      -> DirN("sub", "sub", <<"sub/b.md">>)
      [] path = "sub/b.md" -> FileN("b.md", "sub/b.md", 0, "")
      [] OTHER             -> NoNode
  ELSE
    CASE path = ""              -> DirN("", "", <<"README.MD", "vendor", "docs", "Makefile">>)
      [] path = "README.MD"     -> FileN("README.MD", "README.MD", 2, "aGk=")
      [] path = "vendor"        -> SubmoduleN("vendor", "vendor")
      [] path = "docs"          -> DirN("docs", "docs", <<"docs/sub", "docs/c.tar.md">>)
      [] path = "docs/sub"      -> DirN("sub", "docs/sub", <<"docs/sub/b.md">>)
      [] path = "docs/sub/b.md" -> FileN("b.md", "docs/sub/b.md", 2, "aGk=")
      [] path = "docs/c.tar.md" -> FileN("c.tar.md", "docs/c.tar.md", 0, "")
      [] path = "Makefile"      -> FileN("Makefile", "Makefile", 2, "aGk=")
      [] OTHER                  -> NoNode

\* one element of a directory listing (content is not part of a listing)
Entry(h, path) ==
  LET n == Node(h, path) IN
  [name |-> n.name, path |-> n.path, type |-> n.type,
   size |-> IF n.type = "file" THEN n.size ELSE 0,
   download_url |-> IF n.type = "file" THEN n.path ELSE "null"]

HostError == [status |-> "error"]

\* the answer of a call that succeeds: an array for a directory, an object
\* with a content field for a file, an object without one for a submodule
HostData(h, path) ==
  LET n == Node(h, path) IN
  CASE n.type = "dir" ->
         [status |-> "ok", isArray |-> TRUE, hasContent |-> FALSE,
          data |-> [i \in 1..Len(n.entries) |-> Entry(h, n.entries[i])]]
    [] n.type = "file" ->
         [status |-> "ok", isArray |-> FALSE, hasContent |-> TRUE,
          data |-> [name |-> n.name, path |-> n.path, size |-> n.size,
                    download_url |-> n.path, content |-> n.content]]
    [] n.type = "submodule" ->
         [status |-> "ok", isArray |-> FALSE, hasContent |-> FALSE,
          data |-> [name |-> n.name, path |-> n.path, size |-> 0,
                    download_url |-> "null"]]

\* every outcome a call may have: it may always fail, and a missing path
\* can only fail (404)
HostAnswers(h, path) ==
  {HostError} \cup (IF Node(h, path) = NoNode THEN {} ELSE {HostData(h, path)})

\* Buffer.from(b64, 'base64').toString('utf-8') on the blobs the host serves
Base64Decode(b) ==
  CASE b = "aGk=" -> "hi"
    [] b = ""     -> ""

(***************************************************************************)
(* Result shapes (interfaces FileItem, DirectoryItem, FileWithContent)     *)
(***************************************************************************)
FileItem(e) ==
  [name |-> e.name, path |-> e.path, type |-> "file",
   size |-> e.size, download_url |-> e.download_url]

DirectoryItem(e, children) ==
  [name |-> e.name, path |-> e.path, type |-> "directory", children |-> children]

NullContent == [isNull |-> TRUE]

StringContent(text) == [isNull |-> FALSE, text |-> text]

FileWithContent(path, content) == [path |-> path, content |-> content]

(***************************************************************************)
(* validateGitHubToken                                                     *)
(***************************************************************************)
Undefined == [defined |-> FALSE]

Str(s) == [defined |-> TRUE, value |-> s]

\* variant: only the absence of the token is tested
validateGitHubToken_OnlyUndefined(token) ==
  IF ~token.defined THEN FALSE ELSE TRUE

validateGitHubToken(token) ==
  IF ~token.defined \/ Chars(token.value) = <<>> \/ trim(Chars(token.value)) = <<>>
  THEN FALSE
  ELSE TRUE

(***************************************************************************)
(* sendSSEMessage: enqueue on the controller of one client or of every     *)
(* client in registry order.  enqueue on a closed controller throws, and   *)
(* nothing catches it: the forEach stops and the exception leaves          *)
(* sendSSEMessage.                                                         *)
(***************************************************************************)
NoClient == 0

SinkErrorMessage == "Invalid state: Controller is already closed"

\* index of the first client whose controller is closed, 0 if none
FirstClosed(clients) ==
  IF \E i \in 1..Len(clients) : ~clients[i].open
  THEN CHOOSE i \in 1..Len(clients) :
         ~clients[i].open /\ \A j \in 1..(i - 1) : clients[j].open
  ELSE 0

sendSSEMessage(clients, clientId) ==
  IF clientId # NoClient THEN
    IF \E i \in 1..Len(clients) : clients[i].id = clientId THEN
      LET k == CHOOSE i \in 1..Len(clients) :
                 clients[i].id = clientId /\ \A j \in 1..(i - 1) : clients[j].id # clientId
      IN  IF clients[k].open
          THEN [delivered |-> <<clientId>>, threw |-> FALSE]
          ELSE [delivered |-> <<>>, threw |-> TRUE]
    ELSE [delivered |-> <<>>, threw |-> FALSE]
  ELSE
    LET k == FirstClosed(clients)
        n == IF k = 0 THEN Len(clients) ELSE k - 1
    IN  [delivered |-> [i \in 1..n |-> clients[i].id], threw |-> k # 0]

(***************************************************************************)
(* getRepositoryStructure.  The recursion is kept as a stack of frames,    *)
(* one per call whose for-loop is suspended at line 75: todo is the rest   *)
(* of response.data starting at the directory being listed, items the      *)
(* nodes pushed so far.                                                    *)
(***************************************************************************)
RECURSIVE Scan(_)
RECURSIVE Unwind(_, _)

\* the for-loop of lines 73-91 of the top frame, up to its next await
Scan(stk) ==
  LET f    == stk[Len(stk)]
      rest == SubSeq(stk, 1, Len(stk) - 1)
  IN  IF f.todo = <<>> THEN Unwind(rest, f.items)
      ELSE LET item == Head(f.todo) IN
           IF item.type = "dir"
           THEN [done |-> FALSE, stack |-> stk, call |-> item.path]
           ELSE IF item.type = "file"
           THEN Scan(Append(rest, [todo |-> Tail(f.todo),
                                   items |-> Append(f.items, FileItem(item))]))
           ELSE Scan(Append(rest, [todo |-> Tail(f.todo), items |-> f.items]))

\* a call returned subItems to the frame below it (lines 75-81), or to the
\* handler when it was the top-level call
Unwind(stk, subItems) ==
  IF stk = <<>> THEN [done |-> TRUE, structure |-> subItems]
  ELSE LET f    == stk[Len(stk)]
           rest == SubSeq(stk, 1, Len(stk) - 1)
           item == Head(f.todo)
       IN  Scan(Append(rest, [todo |-> Tail(f.todo),
                              items |-> Append(f.items, DirectoryItem(item, subItems))]))

\* variant: the loop over response.data starts at its second element
TraverseStep_SkipFirst(stk, ans) ==
  IF ans.status = "error" THEN Unwind(stk, <<>>)
  ELSE IF ans.isArray
  THEN Scan(Append(stk, [todo |-> IF ans.data = <<>> THEN <<>> ELSE Tail(ans.data),
                         items |-> <<>>]))
  ELSE Unwind(stk, <<FileItem(ans.data)>>)

\* lines 64-105 from the answer of the awaited call on
TraverseStep(stk, ans) ==
  IF ans.status = "error" THEN Unwind(stk, <<>>)
  ELSE IF ans.isArray THEN Scan(Append(stk, [todo |-> ans.data, items |-> <<>>]))
  ELSE Unwind(stk, <<FileItem(ans.data)>>)

(***************************************************************************)
(* getFileContent, lines 115-131, from the answer of the awaited call on   *)
(***************************************************************************)
\* variant: an answer without a content field yields the empty string
FetchResult_EmptyWhenAbsent(ans) ==
  IF ans.status = "error" THEN NullContent
  ELSE IF ans.hasContent THEN StringContent(Base64Decode(ans.data.content))
  ELSE StringContent("")

FetchResult(ans) ==
  IF ans.status = "error" THEN NullContent
  ELSE IF ans.hasContent THEN StringContent(Base64Decode(ans.data.content))
  ELSE NullContent

(***************************************************************************)
(* processItems (lines 213-242).  walk is the stack of the item lists      *)
(* still to be processed, innermost last; while a content call is awaited  *)
(* the file being fetched is the head of the innermost list.               *)
(***************************************************************************)
\* variant: the extension is compared without toLowerCase
fileExt_CaseSensitive(name) ==
  LET e == pop(split(Chars(name))) IN
  IF e = <<>> THEN Chars("") ELSE e

\* line 216
fileExt(name) ==
  LET e == toLowerCase(pop(split(Chars(name)))) IN
  IF e = <<>> THEN Chars("") ELSE e

\* line 217
Included(item, extensions) ==
  includes(extensions, fileExt(item.name)) \/ includes(extensions, Chars("*"))

RECURSIVE NextFile(_, _)
\* variant: the children of a directory are processed after the rest of the
\* list the directory is in
NextFile_DirectoriesLast(w, extensions) ==
  IF w = <<>> THEN [found |-> FALSE, walk |-> <<>>]
  ELSE LET top  == w[Len(w)]
           rest == SubSeq(w, 1, Len(w) - 1)
       IN  IF top = <<>> THEN NextFile(rest, extensions)
           ELSE LET item == Head(top) IN
                IF item.type = "file" THEN
                  IF Included(item, extensions)
                  THEN [found |-> TRUE, walk |-> w, item |-> item]
                  ELSE NextFile(Append(rest, Tail(top)), extensions)
                ELSE IF item.type = "directory"
                THEN NextFile(Append(Append(rest, item.children), Tail(top)), extensions)
                ELSE NextFile(Append(rest, Tail(top)), extensions)

NextFile(w, extensions) ==
  IF w = <<>> THEN [found |-> FALSE, walk |-> <<>>]
  ELSE LET top  == w[Len(w)]
           rest == SubSeq(w, 1, Len(w) - 1)
       IN  IF top = <<>> THEN NextFile(rest, extensions)
           ELSE LET item == Head(top) IN
                IF item.type = "file" THEN
                  IF Included(item, extensions)
                  THEN [found |-> TRUE, walk |-> w, item |-> item]
                  ELSE NextFile(Append(rest, Tail(top)), extensions)
                ELSE IF item.type = "directory"
                THEN NextFile(Append(Append(rest, Tail(top)), item.children), extensions)
                ELSE NextFile(Append(rest, Tail(top)), extensions)

(***************************************************************************)
(* The tool handlers.  Local is the state of one invocation; each operator *)
(* below is a stretch of handler code between two awaits, taking the       *)
(* invocation's state to its next one.                                     *)
(***************************************************************************)
NoResponse == [kind |-> "none"]

NoArgs == [op |-> "none"]

NoSend == [event |-> "none"]

Local(r) ==
  [pc |-> pc[r], args |-> args[r], stack |-> stack[r], structure |-> structure[r],
   walk |-> walk[r], files |-> files[r], resp |-> resp[r], events |-> events[r],
   calls |-> calls[r], sent |-> lastSend, threw |-> FALSE]

\* the text payload of a tool result, before JSON.stringify
ErrorPayload(error) == [kind |-> "error", error |-> error]

ErrorDetailsPayload(error, details) ==
  [kind |-> "error", error |-> error, details |-> details]

\* one call of sendSSEMessage(null, kind, data) by an invocation
Emit(ls, ev) ==
  LET sr == sendSSEMessage(sseClients, NoClient) IN
  [ls EXCEPT !.events = Append(@, ev),
             !.sent = [event |-> ev.kind,
                       target |-> NoClient,
                       clients |-> sseClients,
                       delivered |-> sr.delivered,
                       threw |-> sr.threw],
             !.threw = sr.threw]

\* issue octokit.repos.getContent and suspend
Call(ls, fn, path, at) ==
  [ls EXCEPT !.calls = Append(@, [fn |-> fn, path |-> path, status |-> "pending"]),
             !.pc = at]

\* the call the invocation is suspended on
Pending(r) == calls[r][Len(calls[r])]

Answered(cs, ans) ==
  [cs EXCEPT ![Len(cs)].status = ans.status]

\* catch block of get_repository_structure, lines 262-280
RepoCatch(ls, message) ==
  LET e == Emit([ls EXCEPT !.threw = FALSE],
                [kind |-> "repo_fetch_error", owner |-> ls.args.owner,
                 repo |-> ls.args.repo, error |-> message])
  IN  IF e.threw THEN [e EXCEPT !.pc = "raised"]
      ELSE [e EXCEPT !.pc = "done",
                     !.resp = ErrorDetailsPayload("Error processing repository request",
                                                  message)]

\* variant: fileCount is the length of the structure
RepoComplete_CountsStructure(ls, withFiles) ==
  LET fileCount == Len(ls.structure)
      e == Emit(ls, [kind |-> "repo_fetch_completed", owner |-> ls.args.owner,
                     repo |-> ls.args.repo, fileCount |-> fileCount])
      repository == [owner |-> ls.args.owner, repo |-> ls.args.repo,
                     structure |-> ls.structure]
  IN  IF e.threw THEN RepoCatch(e, SinkErrorMessage)
      ELSE [e EXCEPT !.pc = "done",
                     !.resp = IF withFiles
                              THEN [kind |-> "result", repository |-> repository,
                                    files |-> ls.files]
                              ELSE [kind |-> "result", repository |-> repository]]

\* lines 248-261; withFiles says whether response.files was assigned
RepoComplete(ls, withFiles) ==
  LET fileCount == IF withFiles THEN Len(ls.files) ELSE 0
      e == Emit(ls, [kind |-> "repo_fetch_completed", owner |-> ls.args.owner,
                     repo |-> ls.args.repo, fileCount |-> fileCount])
      repository == [owner |-> ls.args.owner, repo |-> ls.args.repo,
                     structure |-> ls.structure]
  IN  IF e.threw THEN RepoCatch(e, SinkErrorMessage)
      ELSE [e EXCEPT !.pc = "done",
                     !.resp = IF withFiles
                              THEN [kind |-> "result", repository |-> repository,
                                    files |-> ls.files]
                              ELSE [kind |-> "result", repository |-> repository]]

\* variant: the fetcher publishes file_fetch_started as well
ProcessItems_FetcherEmits(ls) ==
  LET w == NextFile(ls.walk, ls.args.extensions) IN
  IF w.found THEN
    LET e == Emit([ls EXCEPT !.walk = w.walk],
                  [kind |-> "file_fetch_started", path |-> w.item.path])
    IN  IF e.threw THEN RepoCatch(e, SinkErrorMessage)
        ELSE Call(Emit(e, [kind |-> "file_fetch_started", path |-> w.item.path]),
                  "content", w.item.path, "collecting")
  ELSE RepoComplete([ls EXCEPT !.walk = <<>>], TRUE)

\* processItems from the current position to its next await (lines 214-224)
\* or to its end (lines 244-245)
ProcessItems(ls) ==
  LET w == NextFile(ls.walk, ls.args.extensions) IN
  IF w.found THEN
    LET e == Emit([ls EXCEPT !.walk = w.walk],
                  [kind |-> "file_fetch_started", path |-> w.item.path])
    IN  IF e.threw THEN RepoCatch(e, SinkErrorMessage)
        ELSE Call(e, "content", w.item.path, "collecting")
  ELSE RepoComplete([ls EXCEPT !.walk = <<>>], TRUE)

\* variant: collection is gated on includeContent alone
RepoAfterTraverse_AnyFilter(ls) ==
  IF ls.args.includeContent
  THEN ProcessItems([ls EXCEPT !.files = <<>>, !.walk = <<ls.structure>>])
  ELSE RepoComplete(ls, FALSE)

\* lines 201-246 once getRepositoryStructure has returned
RepoAfterTraverse(ls) ==
  IF ls.args.includeContent /\ Len(ls.args.extensions) > 0
  THEN ProcessItems([ls EXCEPT !.files = <<>>, !.walk = <<ls.structure>>])
  ELSE RepoComplete(ls, FALSE)

\* lines 180-199
RepoInvoke(ls) ==
  IF ~validateGitHubToken(ls.args.token)
  THEN [ls EXCEPT !.pc = "done", !.resp = ErrorPayload("Invalid GitHub token")]
  ELSE LET e == Emit(ls, [kind |-> "repo_fetch_started", owner |-> ls.args.owner,
                          repo |-> ls.args.repo])
       IN  IF e.threw THEN RepoCatch(e, SinkErrorMessage)
           ELSE Call(e, "list", "", "traversing")

\* variant: a listing that failed is tried a second time
RepoListed_RetryOnce(ls, ans) ==
  LET t    == TraverseStep(ls.stack, ans)
      seen == [ls EXCEPT !.calls = Answered(@, ans)]
      path == ls.calls[Len(ls.calls)].path
      tried == Cardinality({i \in 1..Len(ls.calls) : ls.calls[i].path = path})
  IN  IF ans.status = "error" /\ tried < 2
      THEN Call(seen, "list", path, "traversing")
      ELSE IF t.done
      THEN RepoAfterTraverse([seen EXCEPT !.stack = <<>>, !.structure = t.structure])
      ELSE Call([seen EXCEPT !.stack = t.stack], "list", t.call, "traversing")

\* variant: a failure of the top-level call is rethrown to the handler
RepoListed_RethrowTopLevel(ls, ans) ==
  LET t    == TraverseStep(ls.stack, ans)
      seen == [ls EXCEPT !.calls = Answered(@, ans)]
  IN  IF ans.status = "error" /\ ls.stack = <<>>
      THEN RepoCatch(seen, "Bad credentials")
      ELSE IF t.done
      THEN RepoAfterTraverse([seen EXCEPT !.stack = <<>>, !.structure = t.structure])
      ELSE Call([seen EXCEPT !.stack = t.stack], "list", t.call, "traversing")

\* getRepositoryStructure resumed by the answer of its call, then the
\* handler once the top-level call has returned
RepoListed(ls, ans) ==
  LET t    == TraverseStep(ls.stack, ans)
      seen == [ls EXCEPT !.calls = Answered(@, ans)]
  IN  IF t.done
      THEN RepoAfterTraverse([seen EXCEPT !.stack = <<>>, !.structure = t.structure])
      ELSE Call([seen EXCEPT !.stack = t.stack], "list", t.call, "traversing")

\* variant: the success flag is the truthiness of the content
RepoFetched_TruthySuccess(ls, ans) ==
  LET content == FetchResult(ans)
      top     == ls.walk[Len(ls.walk)]
      item    == Head(top)
      seen    == [ls EXCEPT !.calls = Answered(@, ans)]
      e == Emit(seen, [kind |-> "file_fetch_completed", path |-> item.path,
                       success |-> content # NullContent /\ content.text # ""])
  IN  IF e.threw THEN RepoCatch(e, SinkErrorMessage)
      ELSE ProcessItems([e EXCEPT !.files = Append(@, FileWithContent(item.path, content)),
                                  !.walk[Len(ls.walk)] = Tail(top)])

\* variant: a record is pushed only for content that was fetched
RepoFetched_OnlyFetched(ls, ans) ==
  LET content == FetchResult(ans)
      top     == ls.walk[Len(ls.walk)]
      item    == Head(top)
      seen    == [ls EXCEPT !.calls = Answered(@, ans)]
      e == Emit(seen, [kind |-> "file_fetch_completed", path |-> item.path,
                       success |-> content # NullContent])
  IN  IF e.threw THEN RepoCatch(e, SinkErrorMessage)
      ELSE ProcessItems([e EXCEPT !.files = IF content = NullContent THEN @
                                            ELSE Append(@, FileWithContent(item.path, content)),
                                  !.walk[Len(ls.walk)] = Tail(top)])

\* lines 224-236 from the answer of the content call on, then the rest of
\* processItems
RepoFetched(ls, ans) ==
  LET content == FetchResult(ans)
      top     == ls.walk[Len(ls.walk)]
      item    == Head(top)
      seen    == [ls EXCEPT !.calls = Answered(@, ans)]
      e == Emit(seen, [kind |-> "file_fetch_completed", path |-> item.path,
                       success |-> content # NullContent])
  IN  IF e.threw THEN RepoCatch(e, SinkErrorMessage)
      ELSE ProcessItems([e EXCEPT !.files = Append(@, FileWithContent(item.path, content)),
                                  !.walk[Len(ls.walk)] = Tail(top)])

\* catch block of get_file_content, lines 355-374
FileCatch(ls, message) ==
  LET e == Emit([ls EXCEPT !.threw = FALSE],
                [kind |-> "file_fetch_error", path |-> ls.args.path,
                 owner |-> ls.args.owner, repo |-> ls.args.repo, error |-> message])
  IN  IF e.threw THEN [e EXCEPT !.pc = "raised"]
      ELSE [e EXCEPT !.pc = "done",
                     !.resp = ErrorDetailsPayload("Error processing file request", message)]

\* lines 293-313
FileInvoke(ls) ==
  IF ~validateGitHubToken(ls.args.token)
  THEN [ls EXCEPT !.pc = "done", !.resp = ErrorPayload("Invalid GitHub token")]
  ELSE LET e == Emit(ls, [kind |-> "file_fetch_started", path |-> ls.args.path,
                          owner |-> ls.args.owner, repo |-> ls.args.repo])
       IN  IF e.threw THEN FileCatch(e, SinkErrorMessage)
           ELSE Call(e, "content", ls.args.path, "fetching")

NotFoundMessage == "File not found or content could not be retrieved"

\* lines 313-354
FileFetched(ls, ans) ==
  LET content == FetchResult(ans)
      seen    == [ls EXCEPT !.calls = Answered(@, ans)]
  IN  IF content = NullContent THEN
        LET e == Emit(seen, [kind |-> "file_fetch_error", path |-> ls.args.path,
                             owner |-> ls.args.owner, repo |-> ls.args.repo,
                             error |-> NotFoundMessage])
        IN  IF e.threw THEN FileCatch(e, SinkErrorMessage)
            ELSE [e EXCEPT !.pc = "done", !.resp = ErrorPayload(NotFoundMessage)]
      ELSE
        LET e == Emit(seen, [kind |-> "file_fetch_completed", path |-> ls.args.path,
                             owner |-> ls.args.owner, repo |-> ls.args.repo,
                             success |-> TRUE])
        IN  IF e.threw THEN FileCatch(e, SinkErrorMessage)
            ELSE [e EXCEPT !.pc = "done",
                           !.resp = [kind |-> "file", path |-> ls.args.path,
                                     content |-> content]]

\* variant: filesWithContent is one list shared by all invocations
Commit_SharedFiles(r, n) ==
  /\ pc' = [pc EXCEPT ![r] = n.pc]
  /\ args' = [args EXCEPT ![r] = n.args]
  /\ stack' = [stack EXCEPT ![r] = n.stack]
  /\ structure' = [structure EXCEPT ![r] = n.structure]
  /\ walk' = [walk EXCEPT ![r] = n.walk]
  /\ files' = [q \in Reqs |-> n.files]
  /\ resp' = [resp EXCEPT ![r] = n.resp]
  /\ events' = [events EXCEPT ![r] = n.events]
  /\ calls' = [calls EXCEPT ![r] = n.calls]
  /\ lastSend' = n.sent

\* the invocation r moves to the state n
Commit(r, n) ==
  /\ pc' = [pc EXCEPT ![r] = n.pc]
  /\ args' = [args EXCEPT ![r] = n.args]
  /\ stack' = [stack EXCEPT ![r] = n.stack]
  /\ structure' = [structure EXCEPT ![r] = n.structure]
  /\ walk' = [walk EXCEPT ![r] = n.walk]
  /\ files' = [files EXCEPT ![r] = n.files]
  /\ resp' = [resp EXCEPT ![r] = n.resp]
  /\ events' = [events EXCEPT ![r] = n.events]
  /\ calls' = [calls EXCEPT ![r] = n.calls]
  /\ lastSend' = n.sent

(***************************************************************************)
(* Inputs                                                                  *)
(***************************************************************************)
Tokens == {Undefined, Str(""), Str(" "), Str("ghp")}

ExtensionLists == {<<>>, <<"md">>, <<"*">>, <<"makefile">>, <<"MD">>, <<"txt", "*">>}

Paths == {"a.txt", "sub", "sub/b.md", "README.MD", "vendor", "docs/c.tar.md", "nope"}

(***************************************************************************)
(* Actions                                                                 *)
(***************************************************************************)
Init ==
  /\ host \in Repos
  /\ sseClients = <<>>
  /\ nextId = 1
  /\ lastSend = NoSend
  /\ pc = [r \in Reqs |-> "idle"]
  /\ args = [r \in Reqs |-> NoArgs]
  /\ stack = [r \in Reqs |-> <<>>]
  /\ structure = [r \in Reqs |-> <<>>]
  /\ walk = [r \in Reqs |-> <<>>]
  /\ files = [r \in Reqs |-> <<>>]
  /\ resp = [r \in Reqs |-> NoResponse]
  /\ events = [r \in Reqs |-> <<>>]
  /\ calls = [r \in Reqs |-> <<>>]

\* a new observer connects (the registry's writer is not in index.ts)
Subscribe ==
  /\ nextId <= MaxSubs
  /\ sseClients' = Append(sseClients, [id |-> nextId, open |-> TRUE])
  /\ nextId' = nextId + 1
  /\ UNCHANGED <<host, lastSend, pc, args, stack, structure, walk, files, resp,
                 events, calls>>

\* an observer is removed from the registry
Unsubscribe(id) ==
  /\ \E i \in 1..Len(sseClients) : sseClients[i].id = id
  /\ sseClients' = SelectSeq(sseClients, LAMBDA c : c.id # id)
  /\ UNCHANGED <<host, nextId, lastSend, pc, args, stack, structure, walk, files,
                 resp, events, calls>>

\* the stream of a registered observer is closed or cancelled: from now on
\* enqueue on its controller throws
SinkClose(id) ==
  /\ \E i \in 1..Len(sseClients) : sseClients[i].id = id /\ sseClients[i].open
  /\ sseClients' = [i \in 1..Len(sseClients) |->
                      IF sseClients[i].id = id
                      THEN [sseClients[i] EXCEPT !.open = FALSE]
                      ELSE sseClients[i]]
  /\ UNCHANGED <<host, nextId, lastSend, pc, args, stack, structure, walk, files,
                 resp, events, calls>>

\* the tool get_repository_structure is invoked
InvokeRepository(r, token, includeContent, extensions) ==
  /\ pc[r] = "idle"
  /\ Commit(r, RepoInvoke([Local(r) EXCEPT !.args =
                 [op |-> "get_repository_structure", token |-> token,
                  owner |-> "o", repo |-> "r",
                  includeContent |-> includeContent, extensions |-> extensions]]))
  /\ UNCHANGED <<host, sseClients, nextId>>

\* the tool get_file_content is invoked
InvokeFile(r, token, path) ==
  /\ pc[r] = "idle"
  /\ Commit(r, FileInvoke([Local(r) EXCEPT !.args =
                 [op |-> "get_file_content", token |-> token,
                  owner |-> "o", repo |-> "r", path |-> path]]))
  /\ UNCHANGED <<host, sseClients, nextId>>

\* the host answers the listing call of getRepositoryStructure
ListReply(r) ==
  /\ pc[r] = "traversing"
  /\ \E ans \in HostAnswers(host, Pending(r).path) :
       Commit(r, RepoListed(Local(r), ans))
  /\ UNCHANGED <<host, sseClients, nextId>>

\* the host answers the content call made from processItems
CollectReply(r) ==
  /\ pc[r] = "collecting"
  /\ \E ans \in HostAnswers(host, Pending(r).path) :
       Commit(r, RepoFetched(Local(r), ans))
  /\ UNCHANGED <<host, sseClients, nextId>>

\* the host answers the content call of the get_file_content handler
FileReply(r) ==
  /\ pc[r] = "fetching"
  /\ \E ans \in HostAnswers(host, Pending(r).path) :
       Commit(r, FileFetched(Local(r), ans))
  /\ UNCHANGED <<host, sseClients, nextId>>

\* sendSSEMessage is called with a client id or with null
Publish(clientId) ==
  /\ LET sr == sendSSEMessage(sseClients, clientId) IN
     lastSend' = [event |-> "message", target |-> clientId, clients |-> sseClients,
                  delivered |-> sr.delivered, threw |-> sr.threw]
  /\ UNCHANGED <<host, sseClients, nextId, pc, args, stack, structure, walk, files,
                 resp, events, calls>>

Next ==
  \/ Subscribe
  \/ \E id \in 1..MaxSubs : Unsubscribe(id)
  \/ \E id \in 1..MaxSubs : SinkClose(id)
  \/ \E token \in Tokens, includeContent \in BOOLEAN, extensions \in ExtensionLists :
       InvokeRepository(1, token, includeContent, extensions)
  \/ \E token \in Tokens, path \in Paths : InvokeFile(1, token, path)
  \/ \E r \in Reqs : ListReply(r)
  \/ \E r \in Reqs : CollectReply(r)
  \/ \E r \in Reqs : FileReply(r)

Spec == Init /\ [][Next]_vars

\* the broadcaster alone: observers come and go, and sendSSEMessage is
\* called with every kind of target
NextPublish ==
  \/ Subscribe
  \/ \E id \in 1..MaxSubs : Unsubscribe(id)
  \/ \E id \in 1..MaxSubs : SinkClose(id)
  \/ \E clientId \in {NoClient} \cup 1..MaxSubs : Publish(clientId)

SpecPublish == Init /\ [][NextPublish]_vars

\* two tool invocations in flight at once, interleaved at their awaits
ConcurrentExtensions == {<<"md">>, <<"*">>}

ConcurrentPaths == {"a.txt", "sub"}

NextConcurrent ==
  \/ Subscribe
  \/ \E id \in 1..MaxSubs : SinkClose(id)
  \/ \E r \in Reqs, extensions \in ConcurrentExtensions :
       InvokeRepository(r, Str("ghp"), TRUE, extensions)
  \/ \E r \in Reqs, path \in ConcurrentPaths : InvokeFile(r, Str("ghp"), path)
  \/ \E r \in Reqs : ListReply(r)
  \/ \E r \in Reqs : CollectReply(r)
  \/ \E r \in Reqs : FileReply(r)

SpecConcurrent == Init /\ [][NextConcurrent]_vars

(***************************************************************************)
(* Vocabulary of the properties                                            *)
(***************************************************************************)
IsRepo(r) == args[r].op = "get_repository_structure"

IsFile(r) == args[r].op = "get_file_content"

\* the handler returned a payload
Returned(r) == pc[r] = "done"

EventKinds(r) == {events[r][i].kind : i \in 1..Len(events[r])}

CallsOf(r, fn) == {i \in 1..Len(calls[r]) : calls[r][i].fn = fn}

FailedLists(r) ==
  {calls[r][i].path : i \in {j \in CallsOf(r, "list") : calls[r][j].status = "error"}}

ListedOk(r) ==
  {calls[r][i].path : i \in {j \in CallsOf(r, "list") : calls[r][j].status = "ok"}}

\* the top-level getRepositoryStructure call of the invocation has returned
Traversed(r) == IsRepo(r) /\ calls[r] # <<>> /\ pc[r] # "traversing"

\* the FileNodes of a structure, depth first
RECURSIVE FileNodes(_)
FileNodes(items) ==
  IF items = <<>> THEN <<>>
  ELSE LET h == Head(items) IN
       (IF h.type = "file" THEN <<h>> ELSE FileNodes(h.children)) \o FileNodes(Tail(items))

\* the DirectoryNodes of a structure, depth first, parents first
RECURSIVE DirNodes(_)
DirNodes(items) ==
  IF items = <<>> THEN <<>>
  ELSE LET h == Head(items) IN
       (IF h.type = "directory" THEN <<h>> \o DirNodes(h.children) ELSE <<>>)
         \o DirNodes(Tail(items))

PathsOf(seq) == [i \in 1..Len(seq) |-> seq[i].path]

Range(seq) == {seq[i] : i \in 1..Len(seq)}

\* every path of the two repositories
HostPaths ==
  {"a.txt", "sub", "sub/b.md", "README.MD", "vendor", "docs", "docs/sub",
   "docs/sub/b.md", "docs/c.tar.md", "Makefile"}

\* the entries of a type that the host lists somewhere under the root
HostEntries(h, type) == {p \in HostPaths : Node(h, p).type = type}

\* the children of the node at a directory path (the structure for the root)
ChildrenAt(items, path) ==
  IF path = "" THEN items
  ELSE LET ds == DirNodes(items) IN
       IF \E i \in 1..Len(ds) : ds[i].path = path
       THEN ds[CHOOSE i \in 1..Len(ds) : ds[i].path = path].children
       ELSE <<>>

HasDot(name) == \E i \in 1..Len(Chars(name)) : Chars(name)[i] = "."

\* the substring after the last '.', for a name that has one
AfterLastDot(name) ==
  LET cs == Chars(name)
      k  == CHOOSE i \in 1..Len(cs) :
              cs[i] = "." /\ \A j \in (i + 1)..Len(cs) : cs[j] # "."
  IN  SubSeq(cs, k + 1, Len(cs))

Filters(r) == {Chars(args[r].extensions[i]) : i \in 1..Len(args[r].extensions)}

(***************************************************************************)
(* Properties                                                              *)
(***************************************************************************)

\* C1: an invocation of either tool with the empty string as credential
\* has returned the "Invalid GitHub token" payload, has published no event
\* and has made no host call.
C1_EmptyCredentialRejected ==
  \A r \in Reqs :
    (args[r] # NoArgs /\ args[r].token = Str("")) =>
      /\ Returned(r)
      /\ resp[r] = ErrorPayload("Invalid GitHub token")
      /\ events[r] = <<>>
      /\ calls[r] = <<>>

C1_Witness ==
  /\ IsFile(1) /\ args[1].token = Str("") /\ Returned(1)
  /\ Len(sseClients) > 0

\* C2 (as claimed): when a listing call of a get_repository_structure
\* invocation failed and the invocation has ended, the traversal returned
\* (it did not raise), the failed path has no children in the structure,
\* every entry of every directory that was listed is in the structure, and
\* the invocation published repo_fetch_completed.
C2_FailedListingStillCompletes ==
  \A r \in Reqs :
    (IsRepo(r) /\ FailedLists(r) # {} /\ pc[r] \in {"done", "raised"}) =>
      /\ Traversed(r)
      /\ \A p \in FailedLists(r) : ChildrenAt(structure[r], p) = <<>>
      /\ \A d \in ListedOk(r) :
           PathsOf(ChildrenAt(structure[r], d)) =
             SelectSeq(Node(host, d).entries,
                       LAMBDA p : Node(host, p).type \in {"file", "dir"})
      /\ "repo_fetch_completed" \in EventKinds(r)

\* C3 (as claimed): no invocation raises, and an invocation that has ended
\* has returned exactly one payload.
C3_HandlersTotal ==
  \A r \in Reqs :
    /\ pc[r] # "raised"
    /\ Returned(r) => resp[r] # NoResponse

\* C4 (as claimed): a broadcast reaches every registered observer whose
\* sink accepts the write, and does not throw.
C4_BroadcastIsolatesFailures ==
  lastSend # NoSend =>
    /\ ~lastSend.threw
    /\ \A i \in 1..Len(lastSend.clients) :
         lastSend.clients[i].open => lastSend.clients[i].id \in Range(lastSend.delivered)

\* C5: when no listing call failed, the structure that the traversal
\* returned has exactly one FileNode per file entry of the host and exactly
\* one DirectoryNode per directory entry.
C5_LeafCount ==
  \A r \in Reqs :
    (Traversed(r) /\ FailedLists(r) = {}) =>
      LET fs == FileNodes(structure[r])
          ds == DirNodes(structure[r])
      IN  /\ Len(fs) = Cardinality(HostEntries(host, "file"))
          /\ Range(PathsOf(fs)) = HostEntries(host, "file")
          /\ Len(ds) = Cardinality(HostEntries(host, "dir"))
          /\ Range(PathsOf(ds)) = HostEntries(host, "dir")

C5_Witness ==
  /\ host = "mixed" /\ Traversed(1) /\ FailedLists(1) = {}
  /\ Len(FileNodes(structure[1])) = 4
  /\ Len(DirNodes(structure[1])) = 2

\* C6: with includeContent and the filter ["*"], the files of the response
\* are the FileNodes of the structure, one record each, in depth-first
\* order, whether or not the content was fetched.
C6_WildcardCollectsEveryFile ==
  \A r \in Reqs :
    (IsRepo(r) /\ args[r].includeContent /\ args[r].extensions = <<"*">>
       /\ Returned(r) /\ resp[r].kind = "result") =>
      /\ "files" \in DOMAIN resp[r]
      /\ PathsOf(resp[r].files) = PathsOf(FileNodes(resp[r].repository.structure))

C6_Witness ==
  /\ IsRepo(1) /\ args[1].extensions = <<"*">> /\ Returned(1)
  /\ resp[1].kind = "result" /\ "files" \in DOMAIN resp[1]
  /\ Len(resp[1].files) = 4
  /\ \E i \in 1..4 : resp[1].files[i].content = NullContent
  /\ \E i \in 1..4 : resp[1].files[i].content # NullContent

\* C7: with includeContent and an empty extension list no content call is
\* made, no file_fetch event is published and the response has no files
\* field.
C7_EmptyFilterSkipsCollection ==
  \A r \in Reqs :
    (IsRepo(r) /\ args[r].includeContent /\ args[r].extensions = <<>>) =>
      /\ CallsOf(r, "content") = {}
      /\ EventKinds(r) \cap {"file_fetch_started", "file_fetch_completed"} = {}
      /\ (Returned(r) /\ resp[r].kind = "result") => "files" \notin DOMAIN resp[r]

C7_Witness ==
  /\ IsRepo(1) /\ args[1].includeContent /\ args[1].extensions = <<>>
  /\ Returned(1) /\ resp[1].kind = "result"
  /\ Len(FileNodes(resp[1].repository.structure)) > 0

\* C8: in a response with collected files, a FileNode whose name has a '.'
\* has a record exactly when the filters hold the lowercased text after
\* its last '.' or hold '*'; README.MD is collected under ["md"], and the
\* scenario repository under ["md"] yields the one record sub/b.md.
C8_ExtensionMatch ==
  \A r \in Reqs :
    (IsRepo(r) /\ Returned(r) /\ resp[r].kind = "result" /\ "files" \in DOMAIN resp[r]) =>
      LET fs     == FileNodes(resp[r].repository.structure)
          got    == Range(PathsOf(resp[r].files))
      IN  /\ \A i \in 1..Len(fs) :
               HasDot(fs[i].name) =>
                 (fs[i].path \in got <=>
                    \/ toLowerCase(AfterLastDot(fs[i].name)) \in Filters(r)
                    \/ <<"*">> \in Filters(r))
          /\ (args[r].extensions = <<"md">> /\ "README.MD" \in Range(PathsOf(fs)))
               => "README.MD" \in got
          /\ (host = "scenario" /\ args[r].extensions = <<"md">> /\ FailedLists(r) = {})
               => /\ Len(resp[r].repository.structure) = 2
                  /\ PathsOf(resp[r].files) = <<"sub/b.md">>

C8_Witness ==
  /\ host = "mixed" /\ IsRepo(1) /\ args[1].extensions = <<"md">>
  /\ Returned(1) /\ resp[1].kind = "result" /\ "files" \in DOMAIN resp[1]
  /\ PathsOf(resp[1].files) = <<"README.MD", "docs/sub/b.md", "docs/c.tar.md">>

\* C9 (as claimed): a FileNode whose name has no '.' has a record only
\* when the filters hold '*'.
C9_NoDotOnlyByWildcard ==
  \A r \in Reqs :
    (IsRepo(r) /\ Returned(r) /\ resp[r].kind = "result" /\ "files" \in DOMAIN resp[r]) =>
      LET fs  == FileNodes(resp[r].repository.structure)
          got == Range(PathsOf(resp[r].files))
      IN  \A i \in 1..Len(fs) :
            (~HasDot(fs[i].name) /\ fs[i].path \in got) => <<"*">> \in Filters(r)

\* C10: get_file_content returns the success payload only with content
\* that is not null, fetched from a file of the host; when the fetch
\* yields no content (the call failed, or the path is not a file with
\* content) the payload returned is the "not found" error and a
\* file_fetch_error event was published.
C10_NoNullContentSuccess ==
  \A r \in Reqs :
    (IsFile(r) /\ Returned(r) /\ validateGitHubToken(args[r].token)) =>
      LET call    == calls[r][Len(calls[r])]
          present == call.status = "ok" /\ Node(host, args[r].path).type = "file"
      IN  /\ resp[r].kind = "file" =>
               /\ present
               /\ resp[r].content # NullContent
               /\ resp[r].path = args[r].path
          /\ ~present =>
               /\ resp[r] = ErrorPayload(NotFoundMessage)
               /\ "file_fetch_error" \in EventKinds(r)
          /\ present => resp[r].kind = "file"

C10_Witness ==
  /\ host = "scenario" /\ IsFile(1) /\ args[1].path = "sub" /\ Returned(1)
  /\ calls[1] # <<>> /\ calls[1][1].status = "ok"
  /\ resp[1] = ErrorPayload(NotFoundMessage)

IdsOf(clients) == [i \in 1..Len(clients) |-> clients[i].id]

\* C11 (as claimed): a call with a target delivers to the observer of that
\* id alone, and delivers nothing and throws nothing when the id is not
\* registered; a call without target delivers once to every registered
\* observer, in registry order.
C11_PublishRouting ==
  lastSend # NoSend =>
    LET ids == IdsOf(lastSend.clients) IN
    IF lastSend.target # NoClient
    THEN IF lastSend.target \in Range(ids)
         THEN lastSend.delivered = <<lastSend.target>>
         ELSE lastSend.delivered = <<>> /\ ~lastSend.threw
    ELSE lastSend.delivered = ids

ValidToken(r) == args[r] # NoArgs /\ validateGitHubToken(args[r].token)

Ended(r) == pc[r] \in {"done", "raised"}

\* the positions of the events of some kinds among the events of r
EventsAt(r, kinds) == {i \in 1..Len(events[r]) : events[r][i].kind \in kinds}

HasPending(r) == calls[r] # <<>> /\ calls[r][Len(calls[r])].status = "pending"

\* C12 (as claimed): the events of a get_repository_structure invocation
\* that passed the credential check are repo_fetch_started (before any
\* host call), then file_fetch events only, then one terminal event,
\* repo_fetch_completed or repo_fetch_error; an ended invocation has
\* exactly one terminal event, it is the last event, and no host call is
\* pending after it.
C12_RepoEventOrder ==
  \A r \in Reqs :
    (IsRepo(r) /\ ValidToken(r)) =>
      LET terminal == EventsAt(r, {"repo_fetch_completed", "repo_fetch_error"}) IN
      /\ events[r] # <<>> /\ events[r][1].kind = "repo_fetch_started"
      /\ EventsAt(r, {"repo_fetch_started"}) = {1}
      /\ Cardinality(terminal) <= 1
      /\ Ended(r) => Cardinality(terminal) = 1
      /\ \A i \in terminal : i = Len(events[r]) /\ ~HasPending(r)
      /\ \A i \in 2..Len(events[r]) :
           i \notin terminal =>
             events[r][i].kind \in {"file_fetch_started", "file_fetch_completed"}

\* C18 (as claimed): the events of a get_file_content invocation that
\* passed the credential check are file_fetch_started and then, once it
\* has ended, exactly one of file_fetch_completed (success) and
\* file_fetch_error; the payload is the success payload exactly when that
\* event is file_fetch_completed, and exactly one host call was made.
C18_FileEventOrder ==
  \A r \in Reqs :
    (IsFile(r) /\ ValidToken(r)) =>
      /\ events[r] # <<>> /\ events[r][1].kind = "file_fetch_started"
      /\ Len(events[r]) <= 2
      /\ Ended(r) =>
           /\ Len(events[r]) = 2
           /\ events[r][2].kind \in {"file_fetch_completed", "file_fetch_error"}
           /\ events[r][2].kind = "file_fetch_completed" => events[r][2].success
           /\ (resp[r].kind = "file") <=> (events[r][2].kind = "file_fetch_completed")
           /\ Len(calls[r]) = 1 /\ ~HasPending(r)

RootListFailed(r) ==
  IsRepo(r) /\ calls[r] # <<>> /\ calls[r][1].status = "error"

\* C13 (as claimed): when the top-level listing call fails, the invocation
\* publishes repo_fetch_error and returns an error payload.
C13_TopLevelFailureIsError ==
  \A r \in Reqs :
    (RootListFailed(r) /\ Ended(r)) =>
      /\ "repo_fetch_error" \in EventKinds(r)
      /\ resp[r].kind = "error"

\* C13 (amended): when the top-level listing call fails, the failure is
\* absorbed: the structure is empty and no further host call is made; a
\* payload that is returned is the result payload with the empty
\* structure, after repo_fetch_completed and without repo_fetch_error;
\* repo_fetch_error is published only when a broadcast threw, with the
\* message of that failure, and then no payload is returned.
C13_TopLevelFailureAbsorbed ==
  \A r \in Reqs :
    RootListFailed(r) =>
      /\ structure[r] = <<>>
      /\ Len(calls[r]) = 1
      /\ Returned(r) =>
           /\ resp[r].kind = "result"
           /\ resp[r].repository.structure = <<>>
           /\ "repo_fetch_completed" \in EventKinds(r)
           /\ "repo_fetch_error" \notin EventKinds(r)
      /\ \A i \in EventsAt(r, {"repo_fetch_error"}) :
           /\ events[r][i].error = SinkErrorMessage
           /\ pc[r] = "raised"

C13_Witness ==
  /\ RootListFailed(1) /\ Returned(1)
  /\ resp[1].kind = "result"
  /\ Len(sseClients) > 0
  /\ lastSend # NoSend /\ lastSend.event = "repo_fetch_completed"

\* how many events of a kind the invocation published for a path
CountEvents(r, kind, path) ==
  Cardinality({i \in 1..Len(events[r]) :
                 /\ events[r][i].kind = kind
                 /\ "path" \in DOMAIN events[r][i]
                 /\ events[r][i].path = path})

CountCalls(r, fn, path) ==
  Cardinality({i \in CallsOf(r, fn) : calls[r][i].path = path})

\* C14 (as claimed): every file with a record in the response had two
\* file_fetch_started and two file_fetch_completed events published.
C14_FetcherEmitsToo ==
  \A r \in Reqs :
    (IsRepo(r) /\ Returned(r) /\ resp[r].kind = "result" /\ "files" \in DOMAIN resp[r]) =>
      \A i \in 1..Len(resp[r].files) :
        /\ CountEvents(r, "file_fetch_started", resp[r].files[i].path) = 2
        /\ CountEvents(r, "file_fetch_completed", resp[r].files[i].path) = 2

\* C14 (amended): the content fetcher publishes nothing; the file_fetch
\* events are those of its caller.  Per path an invocation publishes at
\* most one file_fetch_started, before the content call, and at most one
\* file_fetch_completed, after its answer; every file with a record in the
\* response has exactly one of each.
C14_OneStartOneCompletePerFile ==
  \A r \in Reqs :
    args[r] # NoArgs =>
      /\ \A p \in HostPaths \cup Paths :
           /\ CountEvents(r, "file_fetch_started", p) <= 1
           /\ CountCalls(r, "content", p) <= CountEvents(r, "file_fetch_started", p)
           /\ CountEvents(r, "file_fetch_completed", p) <= CountCalls(r, "content", p)
      /\ (IsRepo(r) /\ Returned(r) /\ resp[r].kind = "result" /\ "files" \in DOMAIN resp[r]) =>
           /\ \A i \in 1..Len(resp[r].files) :
                /\ CountEvents(r, "file_fetch_started", resp[r].files[i].path) = 1
                /\ CountEvents(r, "file_fetch_completed", resp[r].files[i].path) = 1
           /\ Cardinality(EventsAt(r, {"file_fetch_started", "file_fetch_completed"}))
                = 2 * Len(resp[r].files)

C14_Witness ==
  /\ IsRepo(1) /\ Returned(1) /\ resp[1].kind = "result" /\ "files" \in DOMAIN resp[1]
  /\ Len(resp[1].files) = 3
  /\ Len(sseClients) = 2

ContentCalls(r) == SelectSeq(calls[r], LAMBDA c : c.fn = "content")

CompletedEvents(r) == SelectSeq(events[r], LAMBDA e : e.kind = "file_fetch_completed")

IsPrefix(a, b) == Len(a) <= Len(b) /\ SubSeq(b, 1, Len(a)) = a

ListCalls(r) == SelectSeq(calls[r], LAMBDA c : c.fn = "list")

\* the directories of the host in depth-first listing order from a path,
\* not descending below a listing that failed
RECURSIVE ListOrder(_, _, _)
RECURSIVE ListOrderOf(_, _, _)
ListOrder(h, path, failed) ==
  <<path>> \o (IF path \in failed THEN <<>>
               ELSE ListOrderOf(h, Node(h, path).entries, failed))

ListOrderOf(h, entries, failed) ==
  IF entries = <<>> THEN <<>>
  ELSE (IF Node(h, Head(entries)).type = "dir"
        THEN ListOrder(h, Head(entries), failed) ELSE <<>>)
         \o ListOrderOf(h, Tail(entries), failed)

FileEvents(r) ==
  SelectSeq(events[r], LAMBDA e : e.kind \in {"file_fetch_started", "file_fetch_completed"})

\* C16: an invocation has at most one host call pending, its latest; the
\* listing calls of get_repository_structure visit the directories depth
\* first in listing order and all precede the content calls; the children
\* of every listed directory are in listing order; the content calls
\* follow the depth-first order of the included FileNodes; and the file
\* events alternate file_fetch_started, file_fetch_completed, each pair
\* for the path of one content call, in the order of the calls.
C16_SequentialHostCalls ==
  \A r \in Reqs :
    /\ \A i \in 1..Len(calls[r]) : calls[r][i].status = "pending" => i = Len(calls[r])
    /\ IsRepo(r) =>
         LET lc == PathsOf(ListCalls(r))
             cc == PathsOf(ContentCalls(r))
             fe == FileEvents(r)
         IN  /\ calls[r] = ListCalls(r) \o ContentCalls(r)
             /\ IsPrefix(lc, ListOrder(host, "", FailedLists(r)))
             /\ Traversed(r) =>
                  /\ lc = ListOrder(host, "", FailedLists(r))
                  /\ \A d \in ListedOk(r) :
                       PathsOf(ChildrenAt(structure[r], d)) =
                         SelectSeq(Node(host, d).entries,
                                   LAMBDA p : Node(host, p).type \in {"file", "dir"})
                  /\ IsPrefix(cc, PathsOf(SelectSeq(FileNodes(structure[r]),
                                   LAMBDA f : Included(f, args[r].extensions))))
             /\ ~Traversed(r) => cc = <<>>
             /\ \A i \in 1..Len(fe) :
                  IF i % 2 = 1
                  THEN /\ fe[i].kind = "file_fetch_started"
                       /\ (i + 1) \div 2 <= Len(cc) => fe[i].path = cc[(i + 1) \div 2]
                  ELSE /\ fe[i].kind = "file_fetch_completed"
                       /\ fe[i].path = cc[i \div 2]

C16_Witness ==
  /\ host = "mixed" /\ IsRepo(1) /\ Returned(1)
  /\ PathsOf(ListCalls(1)) = <<"", "docs", "docs/sub">>
  /\ PathsOf(ContentCalls(1)) =
       <<"README.MD", "docs/sub/b.md", "docs/c.tar.md", "Makefile">>
  /\ Len(FileEvents(1)) = 8

\* C17: an invocation never issues two calls of the same kind for the same
\* path, whatever the first one answered; listing calls go to directories
\* of the host and the content calls of a collection to files it includes.
C17_NoRetry ==
  \A r \in Reqs :
    /\ \A i, j \in 1..Len(calls[r]) :
         (calls[r][i].fn = calls[r][j].fn /\ calls[r][i].path = calls[r][j].path) => i = j
    /\ IsRepo(r) =>
         \A i \in 1..Len(calls[r]) :
           IF calls[r][i].fn = "list"
           THEN Node(host, calls[r][i].path).type = "dir"
           ELSE /\ Node(host, calls[r][i].path).type = "file"
                /\ Included(Node(host, calls[r][i].path), args[r].extensions)
    /\ IsFile(r) => Len(calls[r]) <= 1

C17_Witness ==
  /\ host = "mixed" /\ IsRepo(1) /\ Returned(1)
  /\ Len(calls[1]) = 4
  /\ calls[1][2] = [fn |-> "list", path |-> "docs", status |-> "error"]
  /\ calls[1][3] = [fn |-> "content", path |-> "README.MD", status |-> "error"]
  /\ calls[1][4] = [fn |-> "content", path |-> "Makefile", status |-> "ok"]

CollectionRequested(r) == args[r].includeContent /\ Len(args[r].extensions) > 0

\* C19: the fileCount of repo_fetch_completed is the number of records
\* collected by the invocation, which is the length of the files list of
\* the response it returns, and is 0 when the collection was skipped,
\* however many FileNodes the structure has.
C19_FileCount ==
  \A r \in Reqs :
    IsRepo(r) =>
      \A i \in EventsAt(r, {"repo_fetch_completed"}) :
        /\ events[r][i].fileCount = Len(files[r])
        /\ ~CollectionRequested(r) => events[r][i].fileCount = 0
        /\ (Returned(r) /\ resp[r].kind = "result") =>
             /\ "files" \in DOMAIN resp[r] <=> CollectionRequested(r)
             /\ events[r][i].fileCount =
                  IF "files" \in DOMAIN resp[r] THEN Len(resp[r].files) ELSE 0

C19_Witness ==
  /\ IsRepo(1) /\ Returned(1) /\ resp[1].kind = "result"
  /\ args[1].includeContent /\ args[1].extensions = <<>>
  /\ Len(FileNodes(structure[1])) = 4
  /\ events[1][Len(events[1])].kind = "repo_fetch_completed"
  /\ events[1][Len(events[1])].fileCount = 0

C19_WitnessCollected ==
  /\ IsRepo(1) /\ Returned(1) /\ resp[1].kind = "result" /\ "files" \in DOMAIN resp[1]
  /\ Len(resp[1].files) = 3
  /\ events[1][Len(events[1])].fileCount = 3

\* what getRepositoryStructure returns for a path when it runs alone and
\* the listings of the paths in failed fail
RECURSIVE AloneStructure(_, _, _)
RECURSIVE AloneItems(_, _, _)
AloneStructure(h, path, failed) ==
  IF path \in failed THEN <<>> ELSE AloneItems(h, Node(h, path).entries, failed)

AloneItems(h, entries, failed) ==
  IF entries = <<>> THEN <<>>
  ELSE LET e == Entry(h, Head(entries)) IN
       (IF e.type = "dir" THEN <<DirectoryItem(e, AloneStructure(h, e.path, failed))>>
        ELSE IF e.type = "file" THEN <<FileItem(e)>>
        ELSE <<>>)
         \o AloneItems(h, Tail(entries), failed)

FailedContents(r) ==
  {calls[r][i].path : i \in {j \in CallsOf(r, "content") : calls[r][j].status = "error"}}

\* the records of a collection over a structure that runs alone and whose
\* content calls for the paths in failed fail
AloneFiles(h, items, extensions, failed) ==
  LET inc == SelectSeq(FileNodes(items), LAMBDA f : Included(f, extensions)) IN
  [i \in 1..Len(inc) |->
     FileWithContent(inc[i].path,
                     IF inc[i].path \in failed THEN NullContent
                     ELSE StringContent(Base64Decode(Node(h, inc[i].path).content)))]

\* C20: whatever the interleaving with the other invocation, the payload
\* an invocation returns is the one it returns alone for the answers the
\* host gave to its own calls: the structure and the files are functions
\* of its own arguments and its own calls, and its file events are those
\* of its own records, in their order.
C20_ResponsesIndependent ==
  \A r \in Reqs :
    Returned(r) =>
      /\ (IsRepo(r) /\ resp[r].kind = "result") =>
           LET alone == AloneStructure(host, "", FailedLists(r)) IN
           /\ resp[r].repository.structure = alone
           /\ "files" \in DOMAIN resp[r]
           /\ resp[r].files =
                AloneFiles(host, alone, args[r].extensions, FailedContents(r))
           /\ Len(FileEvents(r)) = 2 * Len(resp[r].files)
           /\ \A i \in 1..Len(resp[r].files) :
                /\ FileEvents(r)[2 * i - 1].path = resp[r].files[i].path
                /\ FileEvents(r)[2 * i].path = resp[r].files[i].path
      /\ (IsFile(r) /\ resp[r].kind = "file") =>
           /\ resp[r].path = args[r].path
           /\ resp[r].content =
                StringContent(Base64Decode(Node(host, args[r].path).content))
      /\ IsFile(r) => files[r] = <<>>

C20_Witness ==
  /\ host = "scenario"
  /\ \A r \in Reqs : IsRepo(r) /\ Returned(r) /\ resp[r].kind = "result"
  /\ args[1].extensions = <<"*">> /\ args[2].extensions = <<"*">>
  /\ resp[1].files = <<FileWithContent("a.txt", NullContent),
                       FileWithContent("sub/b.md", StringContent(""))>>
  /\ resp[2].files = <<FileWithContent("a.txt", StringContent("hi"))>>
  /\ Len(sseClients) > 0

====
